---- MODULE Spec2Model ----
(***************************************************************************)
(* State-machine model of the ai-agent-demo pipeline:                      *)
(*   AgentOrchestrator.run        (orchestrator.py)                        *)
(*   ChartPlanningAgent           (agents/chart_planning.py)               *)
(*   DataVisualizationAgent       (agents/data_visualization.py)           *)
(*   DebuggingAgent               (agents/debugging.py)                    *)
(*   DataExtractionAgent          (agents/data_extraction.py)              *)
(*                                                                         *)
(* Python values are encoded as follows.  Text is a TLA+ string; the       *)
(* Python value None in a text position is the string None; a JSON value   *)
(* that is an unhashable list is the string Unhashable.  A chart_type as   *)
(* sent by the completion service is a sequence of one-character strings   *)
(* so that str.strip and str.lower are computed character by character.    *)
(* An exception is a record [type, message, agent_name].                   *)
(***************************************************************************)
EXTENDS Integers, Sequences, FiniteSets, TLC

VARIABLES
    pc,                   \* position of AgentOrchestrator.run / of the driver
    file,                 \* the input file: what DataExtractionAgent finds at file_path
    llm_model,            \* ChartPlanningAgent.llm_model
    llm_client,           \* ChartPlanningAgent._llm_client is not None
    max_charts,           \* ChartPlanningAgent.max_charts
    debugger,             \* DebuggingAgent: [client, init_warnings]
    dataframe,            \* local `dataframe` of run / the planner's input
    analysis_report,      \* local `analysis_report`
    chart_plan,           \* local `chart_plan` / the planner's returned plan
    visualization_paths,  \* local `visualization_paths`
    debug_message,        \* local `debug_message`
    dataframe_preview,    \* local `dataframe_preview`
    exc,                  \* the exception in flight or caught (NoExc: none)
    result,               \* the OrchestratorResult returned (NoResult: none yet)
    llm_reply,            \* what the completion service answered to the planner
    llm_requests,         \* completion-service requests issued by the planner
    attempt,              \* the plan _attempt_llm_plan returned (NoPlan: none)
    parsed,               \* what _parse_chart_specs produced for the last reply
    stage_log,            \* stages invoked so far, in order
    debugger_calls,       \* exceptions DebuggingAgent.run was called with
    heur_plans,           \* plans returned by successive _heuristic_plan calls
    dbg_reply,            \* what the completion service answered to the debugger
    plan_returned,        \* what ChartPlanningAgent.run returned to the orchestrator
    render_arg,           \* the `plan` argument DataVisualizationAgent.run received
    output_files,         \* image files written to the output directory
    render_log,           \* outcomes of successive DataVisualizationAgent.run calls
    dbg_requests,         \* completion-service requests issued by the debugger
    context,              \* what the agents' update_context calls have stored
    run                   \* number of the AgentOrchestrator.run call on this instance

vars == <<pc, file, llm_model, llm_client, max_charts, debugger, dataframe, analysis_report,
          chart_plan, visualization_paths, debug_message, dataframe_preview, exc,
          result, llm_reply, llm_requests, attempt, parsed, stage_log,
          debugger_calls, heur_plans, dbg_reply, plan_returned, render_arg,
          output_files, render_log, dbg_requests, context, run>>

-----------------------------------------------------------------------------
(* Bounds of the model *)

MaxCols == 3             \* columns of a dataset given to _heuristic_plan
MaxPipelineCols == 2     \* columns of a dataset given to the planner or the pipeline
MaxBinCols == 1          \* columns of a dataset when the row count ranges widely
MaxRows == 1700          \* rows of a dataset when the row count ranges widely
MaxSmallRows == 1        \* rows of a dataset otherwise
MaxEntries == 2          \* candidate charts in a reply to ChartPlanningAgent.run
MaxPipelineEntries == 2  \* candidate charts in a reply within a pipeline run
MaxHeuristicCalls == 2   \* successive _heuristic_plan calls on one dataset
MaxRenderRows == 1       \* rows of a dataset given to DataVisualizationAgent.run
MaxRenderSpecs == 2      \* chart specs of a plan given to DataVisualizationAgent.run
MaxRenderCalls == 2      \* successive DataVisualizationAgent.run calls on one plan
MaxDebugCalls == 2       \* successive DebuggingAgent.run calls with one error
MaxServiceRows == 1      \* rows of a table when the planner's service is configured
MaxRuns == 2             \* AgentOrchestrator.run calls on one orchestrator instance
MaxCapCharts == 2        \* max_charts of a planner built with a chart cap
MaxCapEntries == 3       \* candidate charts in a reply to a planner with a chart cap

-----------------------------------------------------------------------------
(* Values *)

None == "<None>"
Unhashable == "<list>"

NoExc == [type |-> None, message |-> "", agent_name |-> None]
NoPlan == [none |-> TRUE]
NoFrame == [none |-> TRUE]
NoReply == [kind |-> None]
NoResult == [none |-> TRUE]
NoParse == [raised |-> FALSE, exc |-> NoExc, charts |-> <<>>, called |-> FALSE]

AgentError(message, agent_name) ==
    [type |-> "AgentError", message |-> message, agent_name |-> agent_name]

PyError(type, message) ==
    [type |-> type, message |-> message, agent_name |-> None]

ChartSpec(chart_type, x, y, title, description, options) ==
    [chart_type |-> chart_type, x |-> x, y |-> y, title |-> title,
     description |-> description, options |-> options]

ChartPlan(charts, source, warnings) ==
    [charts |-> charts, source |-> source, warnings |-> warnings]

NoOptions == <<>>

-----------------------------------------------------------------------------
(* Datasets: the column order, each column's numeric / non-numeric dtype,  *)
(* whether the column holds only missing values, and the row count.        *)

Column(name, numeric, allna) == [name |-> name, numeric |-> numeric, allna |-> allna]

ColumnPool ==
    { Column("age", TRUE, FALSE), Column("income", TRUE, FALSE),
      Column("score", TRUE, FALSE), Column("city", FALSE, FALSE),
      Column("notes", FALSE, TRUE) }

\* The columns of the datasets given to the planner and to the pipeline
PipelineColumnPool == { c \in ColumnPool : c.name # "score" }

ColumnSeqs(pool, maxCols) ==
    { s \in UNION { [1..n -> pool] : n \in 0..maxCols } :
        \A i, j \in 1..Len(s) : i # j => s[i] # s[j] }

DataFrames(pool, maxCols, maxRows) ==
    { [cols |-> s, rows |-> n] : s \in ColumnSeqs(pool, maxCols), n \in 0..maxRows }

columns(df) == { df.cols[i].name : i \in 1..Len(df.cols) }

\* DataFrame.empty: any axis of length zero
empty(cols, rows) == Len(cols) = 0 \/ rows = 0

\* DataFrame.select_dtypes(include="number") / (exclude="number"): columns only
select_dtypes(df, number) == SelectSeq(df.cols, LAMBDA c : c.numeric = number)

-----------------------------------------------------------------------------
(* ChartPlanningAgent._heuristic_plan *)

\* int(n ** 0.5): the float square root truncated toward zero
IntSqrt(n) == CHOOSE k \in 0..n : k * k <= n /\ (k + 1) * (k + 1) > n

Min(a, b) == IF a < b THEN a ELSE b
Max(a, b) == IF a > b THEN a ELSE b

MinBins == 10
MaxBins == 40
TopN == 20

\* The square root of n rounded to the nearest integer
RoundSqrt(n) == IF n = 0 THEN 0 ELSE CHOOSE k \in 1..n : k * (k - 1) < n /\ n <= k * (k + 1)

HistogramBins_rounded(n) == Min(MaxBins, Max(MinBins, RoundSqrt(n)))

HistogramBins(n) == Min(MaxBins, Max(MinBins, IntSqrt(n)))

HistogramSpec(column, rows) ==
    ChartSpec("histogram", column, None, "Distribution of " \o column,
              "Auto-generated histogram for numeric column.",
              [bins |-> [num |-> HistogramBins(rows)]])

ScatterSpec(first, second) ==
    ChartSpec("scatter", first, second,
              "Scatter plot: " \o first \o " vs " \o second,
              "Compare two numeric features to inspect correlation.",
              [alpha |-> [dec |-> "0.7"]])

BarSpec(top_cat) ==
    ChartSpec("bar", top_cat, None, "Category distribution: " \o top_cat,
              "Bar chart showing counts per category.",
              [top_n |-> [num |-> TopN]])

heuristic_plan(df) ==
    LET numeric == select_dtypes(df, TRUE)
        categorical == select_dtypes(df, FALSE)
        hists == [i \in 1..Len(numeric) |-> HistogramSpec(numeric[i].name, df.rows)]
        scatter == IF Len(numeric) > 1
                   THEN <<ScatterSpec(numeric[1].name, numeric[2].name)>> ELSE <<>>
        bar == IF ~empty(categorical, df.rows)
               THEN <<BarSpec(categorical[1].name)>> ELSE <<>>
    IN ChartPlan(hists \o scatter \o bar, "heuristic", <<>>)

-----------------------------------------------------------------------------
(* Text helpers: str.strip, str.lower and str() on character sequences *)

UpperChars == <<"A","B","C","D","E","F","G","H","I","J","K","L","M",
                "N","O","P","Q","R","S","T","U","V","W","X","Y","Z">>
LowerChars == <<"a","b","c","d","e","f","g","h","i","j","k","l","m",
                "n","o","p","q","r","s","t","u","v","w","x","y","z">>
Whitespace == {" ", "\t", "\n"}

lower_char(c) ==
    IF \E i \in 1..Len(UpperChars) : UpperChars[i] = c
    THEN LowerChars[CHOOSE i \in 1..Len(UpperChars) : UpperChars[i] = c]
    ELSE c

lower(s) == [i \in 1..Len(s) |-> lower_char(s[i])]

RECURSIVE lstrip(_)
lstrip(s) == IF s # <<>> /\ Head(s) \in Whitespace THEN lstrip(Tail(s)) ELSE s

RECURSIVE rstrip(_)
rstrip(s) ==
    IF s # <<>> /\ s[Len(s)] \in Whitespace THEN rstrip(SubSeq(s, 1, Len(s) - 1)) ELSE s

strip(s) == rstrip(lstrip(s))

RECURSIVE text(_)
text(s) == IF s = <<>> THEN "" ELSE Head(s) \o text(Tail(s))

-----------------------------------------------------------------------------
(* What the completion service may answer *)

\* One candidate entry of payload["charts"].  type_tag says whether the
\* "chart_type" key is absent, JSON null, or a string (chart_type, as characters).
Entry(type_tag, chart_type, x, y, options_is_dict, options) ==
    [is_object |-> TRUE, type_tag |-> type_tag, chart_type |-> chart_type,
     x |-> x, y |-> y, title |-> None, description |-> None,
     options_is_dict |-> options_is_dict, options |-> options]

NotAnObject ==
    [is_object |-> FALSE, type_tag |-> "absent", chart_type |-> <<>>,
     x |-> None, y |-> None, title |-> None, description |-> None,
     options_is_dict |-> FALSE, options |-> NoOptions]

HistogramAge ==
    Entry("str", <<"h","i","s","t","o","g","r","a","m">>, "age", None, FALSE, NoOptions)
HistogramCity ==
    Entry("str", <<"h","i","s","t","o","g","r","a","m">>, "city", None, FALSE, NoOptions)
BarCityPadded ==
    Entry("str", <<" ","B","a","r"," ">>, "city", None, TRUE, [top_n |-> [num |-> 5]])
ScatterAgeIncome ==
    Entry("str", <<"s","c","a","t","t","e","r">>, "age", "income", TRUE,
          [alpha |-> [txt |-> "opaque"]])
ScatterAgeGhost ==
    Entry("str", <<"s","c","a","t","t","e","r">>, "age", "ghost", FALSE, NoOptions)
LineGhost == Entry("str", <<"l","i","n","e">>, "ghost", None, FALSE, NoOptions)
BlankTypeAge == Entry("str", <<" ","\t">>, "age", None, FALSE, NoOptions)
NoTypeAge == Entry("absent", <<>>, "age", None, FALSE, NoOptions)
NullTypeIncome == Entry("null", <<>>, "income", None, FALSE, NoOptions)
PieCity == Entry("str", <<"P","i","e">>, "city", None, FALSE, NoOptions)
BarUnhashableX == Entry("str", <<"b","a","r">>, Unhashable, None, FALSE, NoOptions)

\* The candidate entries of a reply to ChartPlanningAgent.run called on its own
EntryPool ==
    { HistogramAge, BarCityPadded, ScatterAgeIncome, ScatterAgeGhost, LineGhost,
      BlankTypeAge, NoTypeAge, NullTypeIncome, PieCity, BarUnhashableX, NotAnObject }

\* The candidate entries of a reply within a pipeline run
PipelineEntryPool ==
    { HistogramAge, HistogramCity, BarCityPadded, ScatterAgeGhost, PieCity,
      BarUnhashableX }

EntrySeqs(pool, maxEntries) == UNION { [1..n -> pool] : n \in 0..maxEntries }

Reply(kind, error, top_is_object, has_charts, charts_is_list, charts) ==
    [kind |-> kind, error |-> error, top_is_object |-> top_is_object,
     has_charts |-> has_charts, charts_is_list |-> charts_is_list, charts |-> charts]

TransportErrors == {"Connection error.", "Request timed out.", ""}
StructureErrors == {"list index out of range", ""}
JsonErrors == {"Expecting value: line 1 column 1 (char 0)", ""}

Replies(pool, maxEntries) ==
    { Reply("transport_error", e, FALSE, FALSE, FALSE, <<>>) : e \in TransportErrors }
    \cup { Reply("bad_structure", e, FALSE, FALSE, FALSE, <<>>) : e \in StructureErrors }
    \cup { Reply("content_none", "", FALSE, FALSE, FALSE, <<>>),
           Reply("content_empty", "", FALSE, FALSE, FALSE, <<>>) }
    \cup { Reply("bad_json", e, FALSE, FALSE, FALSE, <<>>) : e \in JsonErrors }
    \cup { Reply("json", "", FALSE, FALSE, FALSE, <<>>),
           Reply("json", "", TRUE, FALSE, FALSE, <<>>),
           Reply("json", "", TRUE, TRUE, FALSE, <<>>) }
    \cup { Reply("json", "", TRUE, TRUE, TRUE, c) : c \in EntrySeqs(pool, maxEntries) }

-----------------------------------------------------------------------------
(* ChartPlanningAgent._parse_chart_specs, consumed by list(...) *)

Returned(charts) == [raised |-> FALSE, exc |-> NoExc, charts |-> charts, called |-> TRUE]
Raised(e) == [raised |-> TRUE, exc |-> e, charts |-> <<>>, called |-> TRUE]

\* str(raw.get("chart_type", "")).strip().lower()
chart_type_of(raw) ==
    LET str == CASE raw.type_tag = "absent" -> <<>>
                 [] raw.type_tag = "null" -> <<"N","o","n","e">>
                 [] OTHER -> raw.chart_type
    IN text(lower(strip(str)))

RECURSIVE parse_chart_specs_from(_, _, _, _)
parse_chart_specs_from(chart_payload, available_columns, i, acc) ==
    IF i > Len(chart_payload) THEN Returned(acc)
    ELSE LET raw == chart_payload[i]
             next(a) == parse_chart_specs_from(chart_payload, available_columns, i + 1, a)
         IN IF ~raw.is_object
            THEN Raised(PyError("AttributeError", "'str' object has no attribute 'get'"))
            ELSE LET chart_type == chart_type_of(raw)
                 IN IF chart_type = "" THEN next(acc)
                    ELSE IF raw.x = Unhashable
                    THEN Raised(PyError("TypeError", "unhashable type: 'list'"))
                    ELSE IF raw.x \notin available_columns THEN next(acc)
                    ELSE IF raw.y = Unhashable
                    THEN Raised(PyError("TypeError", "unhashable type: 'list'"))
                    ELSE IF raw.y # None /\ raw.y \notin available_columns THEN next(acc)
                    ELSE next(Append(acc,
                            ChartSpec(chart_type, raw.x, raw.y, raw.title, raw.description,
                                      IF raw.options_is_dict THEN raw.options
                                      ELSE NoOptions)))

parse_chart_specs(chart_payload, df) ==
    parse_chart_specs_from(chart_payload, columns(df), 1, <<>>)

-----------------------------------------------------------------------------
(* ChartPlanningAgent._attempt_llm_plan *)

Truthy(s) == s # None /\ s # ""

\* max_charts when the constructor is not given one
DefaultMaxCharts == 6

WarnClientUnavailable ==
    "LLM model configured but OpenAI client unavailable; falling back to heuristics."
WarnPlanningFailed(e) == "LLM planning failed: " \o e
WarnBadStructure(e) == "Unexpected LLM response structure: " \o e
WarnEmptyContent == "LLM returned empty content; using heuristic plan."
WarnBadJson_as_planning_failure(e) == "LLM planning failed: " \o e
WarnBadJson(e) == "Failed to parse LLM JSON: " \o e
WarnNoValidCharts == "LLM did not yield valid charts; using heuristic plan."

\* The outcome of a call: it returns `plan` or raises `exc`; `requests` counts the
\* chat.completions.create calls it made and `parse` is what list(_parse_chart_specs)
\* did, when it was reached.
Outcome(raised, e, plan, requests, parse) ==
    [raised |-> raised, exc |-> e, plan |-> plan, requests |-> requests, parse |-> parse]

Aborted_propagates(warning, requests) ==
    Outcome(TRUE, PyError("APIConnectionError", warning), NoPlan, requests, NoParse)

Aborted(warning, requests) ==
    Outcome(FALSE, NoExc, ChartPlan(<<>>, "heuristic", <<warning>>), requests, NoParse)

attempt_llm_plan(df, client, reply) ==
    IF ~client THEN Aborted(WarnClientUnavailable, 0)
    ELSE CASE reply.kind = "transport_error" -> Aborted(WarnPlanningFailed(reply.error), 1)
           [] reply.kind = "bad_structure" -> Aborted(WarnBadStructure(reply.error), 1)
           [] reply.kind \in {"content_none", "content_empty"} -> Aborted(WarnEmptyContent, 1)
           [] reply.kind = "bad_json" -> Aborted(WarnBadJson(reply.error), 1)
           [] OTHER ->
                IF ~reply.top_is_object
                THEN Outcome(TRUE, PyError("AttributeError",
                                           "'list' object has no attribute 'get'"),
                             NoPlan, 1, NoParse)
                ELSE IF reply.has_charts /\ ~reply.charts_is_list
                THEN Outcome(TRUE, PyError("TypeError", "'NoneType' object is not iterable"),
                             NoPlan, 1, NoParse)
                ELSE LET parse == parse_chart_specs(
                                     IF reply.has_charts THEN reply.charts ELSE <<>>, df)
                     IN IF parse.raised THEN Outcome(TRUE, parse.exc, NoPlan, 1, parse)
                        ELSE IF parse.charts = <<>>
                        THEN Outcome(FALSE, NoExc,
                                     ChartPlan(<<>>, "heuristic", <<WarnNoValidCharts>>),
                                     1, parse)
                        ELSE Outcome(FALSE, NoExc, ChartPlan(parse.charts, "llm", <<>>),
                                     1, parse)

-----------------------------------------------------------------------------
(* ChartPlanningAgent.run.  `attempted` is the outcome of _attempt_llm_plan, *)
(* or NoAttempt when no model is configured (plan = None).                  *)

NoAttempt == Outcome(FALSE, NoExc, NoPlan, 0, NoParse)

merge_fallback_drop_warnings(df, plan) == heuristic_plan(df)

merge_fallback(df, plan) ==
    LET fallback == heuristic_plan(df)
    IN IF plan # NoPlan /\ plan.warnings # <<>>
       THEN [fallback EXCEPT !.warnings = fallback.warnings \o plan.warnings]
       ELSE fallback

\* What run did: `plan` is the plan returned (or `exc` raised), `attempt` the plan
\* _attempt_llm_plan returned (NoPlan when it was not called or raised).
RunOutcome(o, plan) ==
    [raised |-> o.raised, exc |-> o.exc, plan |-> plan, requests |-> o.requests,
     parse |-> o.parse, attempt |-> o.plan]

planning_run_always_attempts(df, model, client, reply) ==
    LET attempted == attempt_llm_plan(df, client, reply)
    IN IF attempted.raised THEN RunOutcome(attempted, NoPlan)
       ELSE IF attempted.plan.source = "heuristic" /\ attempted.plan.charts = <<>>
       THEN RunOutcome(attempted, merge_fallback(df, attempted.plan))
       ELSE RunOutcome(attempted, attempted.plan)

planning_run(df, model, client, reply) ==
    IF df = NoFrame
    THEN RunOutcome(Outcome(TRUE, AgentError("DataFrame required for chart planning.",
                                             "chart_planning"), NoPlan, 0, NoParse), NoPlan)
    ELSE LET attempted == IF Truthy(model) THEN attempt_llm_plan(df, client, reply)
                          ELSE NoAttempt
             plan == attempted.plan
         IN IF attempted.raised THEN RunOutcome(attempted, NoPlan)
            ELSE IF plan = NoPlan \/ (plan.source = "heuristic" /\ plan.charts = <<>>)
            THEN RunOutcome(attempted, merge_fallback(df, plan))
            ELSE RunOutcome(attempted, plan)

\* Whether ChartPlanningAgent.run will call chat.completions.create
WillRequest(model, client) == Truthy(model) /\ client

-----------------------------------------------------------------------------
(* DataExtractionAgent.run.  A file is what is found at file_path: missing, *)
(* of an unsupported extension, unreadable by pandas.read_csv, or a table.  *)

File(status, frame) == [status |-> status, frame |-> frame]

Files ==
    { File("missing", NoFrame), File("unsupported", NoFrame), File("unparsable", NoFrame) }
    \cup { File("ok", f) : f \in DataFrames(PipelineColumnPool, MaxPipelineCols, MaxSmallRows) }

FilePath == "data.csv"

extraction_run(f) ==
    CASE f.status = "missing" ->
            [raised |-> TRUE, frame |-> NoFrame,
             exc |-> AgentError("File not found: " \o FilePath, "data_extraction")]
      [] f.status = "unsupported" ->
            [raised |-> TRUE, frame |-> NoFrame,
             exc |-> AgentError("Unsupported file extension", "data_extraction")]
      [] f.status = "unparsable" ->
            [raised |-> TRUE, frame |-> NoFrame,
             exc |-> PyError("ParserError", "Error tokenizing data")]
      [] OTHER ->
            IF empty(f.frame.cols, f.frame.rows)
            THEN [raised |-> TRUE, frame |-> NoFrame,
                  exc |-> AgentError("The input dataset is empty.", "data_extraction")]
            ELSE [raised |-> FALSE, frame |-> f.frame, exc |-> NoExc]

-----------------------------------------------------------------------------
(* DataAnalysisAgent.run: it returns a report or raises. *)

AnalysisOutcomes ==
    { [raised |-> FALSE, report |-> "report", exc |-> NoExc],
      [raised |-> TRUE, report |-> None,
       exc |-> AgentError("DataFrame required for analysis.", "data_analysis")],
      [raised |-> TRUE, report |-> None, exc |-> PyError("ValueError", "analysis failed")] }

-----------------------------------------------------------------------------
(* DataVisualizationAgent *)

OutputDir == "visualizations"

NoArtifact == None

Drawn(path) == [raised |-> FALSE, exc |-> NoExc, artifact |-> path]
Skipped == [raised |-> FALSE, exc |-> NoExc, artifact |-> NoArtifact]
PlotError(message) == [raised |-> TRUE, exc |-> PyError("TypeError", message),
                       artifact |-> NoArtifact]

col(df, name) == df.cols[CHOOSE i \in 1..Len(df.cols) : df.cols[i].name = name]

\* dataframe[[...]].dropna().empty
dropna_empty(df, names) == df.rows = 0 \/ \E n \in names : col(df, n).allna

Option(spec, key) ==
    IF spec.options # NoOptions /\ key \in DOMAIN spec.options
    THEN spec.options[key] ELSE [absent |-> TRUE]

\* An option value the plotting library accepts as a number
IsNumber(v) == "num" \in DOMAIN v \/ "dec" \in DOMAIN v
IsAbsent(v) == "absent" \in DOMAIN v

suffix(spec) == IF spec.y # None /\ spec.y # "" THEN "_" \o spec.y ELSE ""

path_of(name) == OutputDir \o "/" \o name \o ".png"

render_histogram_by_title(df, spec) ==
    IF dropna_empty(df, {spec.x}) THEN Skipped
    ELSE IF ~col(df, spec.x).numeric THEN PlotError("no numeric data to plot")
    ELSE Drawn(path_of("histogram_" \o spec.x \o "_" \o spec.title))

render_histogram(df, spec) ==
    IF dropna_empty(df, {spec.x}) THEN Skipped
    ELSE IF ~col(df, spec.x).numeric THEN PlotError("no numeric data to plot")
    ELSE IF ~IsAbsent(Option(spec, "bins")) /\ ~IsNumber(Option(spec, "bins"))
    THEN PlotError("bins must be an integer, a string, or an array")
    ELSE Drawn(path_of("hist_" \o spec.x))

DefaultAlpha == [dec |-> "0.8"]

\* float(spec.options.get("alpha", alpha)), 0.8 on TypeError or ValueError
scatter_alpha(spec) ==
    IF IsNumber(Option(spec, "alpha")) THEN Option(spec, "alpha") ELSE DefaultAlpha

render_scatter(df, spec) ==
    IF spec.y = None THEN Skipped
    ELSE IF dropna_empty(df, {spec.x, spec.y}) THEN Skipped
    ELSE IF ~IsNumber(scatter_alpha(spec)) THEN PlotError("alpha must be numeric or None")
    ELSE Drawn(path_of("scatter_" \o spec.x \o "_" \o spec.y))

render_line(df, spec) ==
    IF dropna_empty(df, IF spec.y # None THEN {spec.x, spec.y} ELSE {spec.x}) THEN Skipped
    ELSE IF ~IsAbsent(Option(spec, "linewidth")) /\ ~IsNumber(Option(spec, "linewidth"))
    THEN PlotError("linewidth must be a number")
    ELSE Drawn(path_of("line_" \o spec.x \o suffix(spec)))

render_bar(df, spec) ==
    IF dropna_empty(df, IF spec.y # None THEN {spec.x, spec.y} ELSE {spec.x}) THEN Skipped
    ELSE IF spec.y # None /\ ~col(df, spec.y).numeric
    THEN PlotError("bar height must be numeric")
    ELSE Drawn(path_of("bar_" \o spec.x \o suffix(spec)))

render_box(df, spec) ==
    IF dropna_empty(df, IF spec.y # None THEN {spec.x, spec.y} ELSE {spec.x}) THEN Skipped
    ELSE IF ~col(df, IF spec.y # None THEN spec.y ELSE spec.x).numeric
    THEN PlotError("boxplot requires numeric data")
    ELSE Drawn(path_of("box_" \o spec.x \o suffix(spec)))

\* Chart types a caller of DataVisualizationAgent.run may write with capitals
CapitalizedTypes == { <<"B","o","x">>, <<"H","I","S","T","O","G","R","A","M">> }

\* spec.chart_type.lower(): every other chart type of the model is in lower case
lower_chart_type(chart_type) ==
    IF \E w \in CapitalizedTypes : text(w) = chart_type
    THEN text(lower(CHOOSE w \in CapitalizedTypes : text(w) = chart_type))
    ELSE chart_type

render_chart_strict(df, spec) ==
    IF spec.x \notin columns(df) THEN PlotError("unknown column")
    ELSE IF spec.y # None /\ spec.y \notin columns(df) THEN PlotError("unknown column")
    ELSE LET chart_type == lower_chart_type(spec.chart_type)
         IN CASE chart_type = "histogram" -> render_histogram(df, spec)
              [] chart_type = "scatter" -> render_scatter(df, spec)
              [] chart_type = "line" -> render_line(df, spec)
              [] chart_type = "bar" -> render_bar(df, spec)
              [] chart_type = "box" -> render_box(df, spec)
              [] OTHER -> PlotError("unknown chart type")

render_chart(df, spec) ==
    IF spec.x \notin columns(df) THEN Skipped
    ELSE IF spec.y # None /\ spec.y \notin columns(df) THEN Skipped
    ELSE LET chart_type == lower_chart_type(spec.chart_type)
         IN CASE chart_type = "histogram" -> render_histogram(df, spec)
              [] chart_type = "scatter" -> render_scatter(df, spec)
              [] chart_type = "line" -> render_line(df, spec)
              [] chart_type = "bar" -> render_bar(df, spec)
              [] chart_type = "box" -> render_box(df, spec)
              [] OTHER -> Skipped

default_plan(df) ==
    LET numeric_columns == select_dtypes(df, TRUE)
    IN [i \in 1..Len(numeric_columns) |->
            ChartSpec("histogram", numeric_columns[i].name, None,
                      "Distribution of " \o numeric_columns[i].name, None, NoOptions)]
       \o IF Len(numeric_columns) > 1
          THEN <<ChartSpec("scatter", numeric_columns[1].name, numeric_columns[2].name,
                           "Scatter plot: " \o numeric_columns[1].name \o " vs "
                               \o numeric_columns[2].name, None, NoOptions)>>
          ELSE <<>>

\* `paths` is the list returned; `written` lists the files saved, also when the
\* call raises after saving some.
VizReturned(paths) ==
    [raised |-> FALSE, exc |-> NoExc, paths |-> paths, written |-> paths]
VizRaised(message, written) ==
    [raised |-> TRUE, exc |-> AgentError(message, "data_visualization"), paths |-> <<>>,
     written |-> written]

RECURSIVE render_specs_allows_none(_, _, _, _)
render_specs_allows_none(df, specs, i, saved_files) ==
    IF i > Len(specs) THEN VizReturned(saved_files)
    ELSE LET r == render_chart(df, specs[i])
         IN IF r.raised THEN VizRaised(r.exc.message, saved_files)
            ELSE render_specs_allows_none(df, specs, i + 1,
                                          IF r.artifact # NoArtifact
                                          THEN Append(saved_files, r.artifact)
                                          ELSE saved_files)

RECURSIVE render_specs(_, _, _, _)
render_specs(df, specs, i, saved_files) ==
    IF i > Len(specs)
    THEN IF saved_files = <<>>
         THEN VizRaised("No charts could be generated for the provided plan.", <<>>)
         ELSE VizReturned(saved_files)
    ELSE LET r == render_chart(df, specs[i])
         IN IF r.raised THEN VizRaised(r.exc.message, saved_files)
            ELSE render_specs(df, specs, i + 1,
                              IF r.artifact # NoArtifact
                              THEN Append(saved_files, r.artifact) ELSE saved_files)

visualization_run_requires_plan(df, plan) ==
    IF df = NoFrame THEN VizRaised("DataFrame required for visualization.", <<>>)
    ELSE IF plan # NoPlan /\ plan.charts # <<>>
    THEN render_specs(df, plan.charts, 1, <<>>)
    ELSE VizRaised("No numeric columns available for visualization.", <<>>)

visualization_run_by_source(df, plan) ==
    IF df = NoFrame THEN VizRaised("DataFrame required for visualization.", <<>>)
    ELSE IF plan # NoPlan /\ plan.charts # <<>> /\ plan.source = "llm"
    THEN render_specs(df, plan.charts, 1, <<>>)
    ELSE IF empty(select_dtypes(df, TRUE), df.rows)
    THEN VizRaised("No numeric columns available for visualization.", <<>>)
    ELSE render_specs(df, default_plan(df), 1, <<>>)

visualization_run(df, plan) ==
    IF df = NoFrame THEN VizRaised("DataFrame required for visualization.", <<>>)
    ELSE IF plan # NoPlan /\ plan.charts # <<>>
    THEN render_specs(df, plan.charts, 1, <<>>)
    ELSE IF empty(select_dtypes(df, TRUE), df.rows)
    THEN VizRaised("No numeric columns available for visualization.", <<>>)
    ELSE render_specs(df, default_plan(df), 1, <<>>)

-----------------------------------------------------------------------------
(* DebuggingAgent *)

Debugger(client, init_warnings) == [client |-> client, init_warnings |-> init_warnings]

\* (the source's text quotes the package name with backquotes)
WarnNoOpenAI == "openai package is unavailable; install openai to enable LLM-backed agents."

\* llm_settings is None; a client was created; create_client returned (None, warnings)
DebuggerConfigs ==
    { Debugger(FALSE, <<>>), Debugger(TRUE, <<>>), Debugger(FALSE, <<WarnNoOpenAI>>) }

DebugReply(kind, error, content) == [kind |-> kind, error |-> error, content |-> content]
NoDebugReply == DebugReply(None, "", <<>>)

DebugReplies ==
    { DebugReply("error", "Connection error.", <<>>),
      DebugReply("content_none", "", <<>>),
      DebugReply("content", "", <<" ","R","e","t","r","y",".","\n">>) }

RECURSIVE join(_)
join(warnings) ==
    IF warnings = <<>> THEN ""
    ELSE IF Len(warnings) = 1 THEN warnings[1]
    ELSE warnings[1] \o " " \o join(Tail(warnings))

GenericMessage ==
    "An unexpected error occurred. Please review the stack trace and ensure "
        \o "that the input file is well-formed."

handle_agent_error_unnamed(error) ==
    "Encountered a recoverable error: " \o error.message \o "."

handle_agent_error(error) ==
    LET agent_info == IF Truthy(error.agent_name)
                      THEN (" in agent '" \o error.agent_name \o "'")
                      ELSE ""
    IN "Encountered a recoverable error" \o agent_info \o ": " \o error.message \o "."

\* The requests DebuggingAgent.run makes to chat.completions.create
debug_requests(error, dbg) == IF error # NoExc /\ dbg.client THEN 1 ELSE 0

debug_run_replaces_message(error, dbg, reply) ==
    IF error = NoExc THEN "No errors to debug."
    ELSE LET message == IF error.type = "AgentError" THEN handle_agent_error(error)
                        ELSE GenericMessage
         IN IF ~dbg.client THEN message
            ELSE CASE reply.kind = "error" -> "LLM debugging unavailable: " \o reply.error
                   [] reply.kind = "content" /\ reply.content # <<>> ->
                        message \o "\n\nLLM suggestion:\n" \o text(strip(reply.content))
                   [] OTHER -> message

debug_run(error, dbg, reply) ==
    IF error = NoExc THEN "No errors to debug."
    ELSE LET message == IF error.type = "AgentError" THEN handle_agent_error(error)
                        ELSE GenericMessage
         IN IF ~dbg.client
            THEN IF dbg.init_warnings # <<>>
                 THEN message \o "\n\nLLM debugging unavailable: " \o join(dbg.init_warnings)
                 ELSE message
            ELSE CASE reply.kind = "error" ->
                        message \o "\n\nLLM debugging unavailable: " \o reply.error
                   [] reply.kind = "content" /\ reply.content # <<>> ->
                        message \o "\n\nLLM suggestion:\n" \o text(strip(reply.content))
                   [] OTHER ->
                        IF dbg.init_warnings # <<>>
                        THEN message \o "\n\nLLM debugging unavailable: "
                                 \o join(dbg.init_warnings)
                        ELSE message

-----------------------------------------------------------------------------
(* AgentOrchestrator *)

Agents_plan_before_analysis == <<"Extract", "Plan", "Analyze", "Render">>

\* The default `agents` tuple, by the branch of run's isinstance dispatch each takes
Agents == <<"Extract", "Analyze", "Plan", "Render">>

FirstStage == IF Agents = <<>> THEN "Done" ELSE Agents[1]

\* The for loop's next agent after `stage` returned, "Done" after the last
StageAfter(stage) ==
    LET i == CHOOSE k \in 1..Len(Agents) : Agents[k] = stage
    IN IF i < Len(Agents) THEN Agents[i + 1] ELSE "Done"

RECURSIVE column_names(_)
column_names(cols) ==
    IF cols = <<>> THEN "|" ELSE "| " \o Head(cols).name \o " " \o column_names(Tail(cols))

render_dataframe_preview(df) == IF df = NoFrame THEN "" ELSE column_names(df.cols)

OrchestratorResult(preview, report, plan, paths, message) ==
    [dataframe_preview |-> preview, analysis_report |-> report, chart_plan |-> plan,
     visualization_paths |-> paths, debug_message |-> message]

ModelConfigs ==
    { <<m, c>> \in {None, "", "gpt-4o-mini"} \X BOOLEAN : c => Truthy(m) }

\* Agent.context of the agents of one orchestrator, as one table: the keys
\* stored so far, the value under each, and the run that stored it
EmptyContext ==
    [keys |-> {}, dataframe |-> NoFrame, source_path |-> None, plan |-> NoPlan,
     visualizations |-> <<>>, plan_source |-> None, stored_in |-> <<>>]

Stored(ctx, names, r) ==
    [k \in ctx.keys \cup names |-> IF k \in names THEN r ELSE ctx.stored_in[k]]

\* Agent.update_context as each agent calls it: dict.update adds or overwrites
update_context_extraction(ctx, frame, r) ==
    [ctx EXCEPT !.keys = @ \cup {"dataframe", "source_path"},
                !.dataframe = frame,
                !.source_path = FilePath,
                !.stored_in = Stored(ctx, {"dataframe", "source_path"}, r)]

update_context_planning(ctx, plan, r) ==
    [ctx EXCEPT !.keys = @ \cup {"plan"},
                !.plan = plan,
                !.stored_in = Stored(ctx, {"plan"}, r)]

update_context_visualization(ctx, paths, plan, r) ==
    [ctx EXCEPT !.keys = @ \cup {"visualizations", "plan_source"},
                !.visualizations = paths,
                !.plan_source = IF plan # NoPlan THEN plan.source ELSE "default",
                !.stored_in = Stored(ctx, {"visualizations", "plan_source"}, r)]

InitLocals ==
    /\ dataframe_preview = None
    /\ analysis_report = None
    /\ visualization_paths = <<>>
    /\ debug_message = None
    /\ result = NoResult
    /\ llm_reply = NoReply
    /\ llm_requests = 0
    /\ attempt = NoPlan
    /\ parsed = NoParse
    /\ stage_log = <<>>
    /\ debugger_calls = <<>>
    /\ heur_plans = <<>>
    /\ dbg_reply = NoDebugReply
    /\ dbg_requests = 0
    /\ context = EmptyContext
    /\ run = 1
    /\ plan_returned = NoPlan
    /\ render_arg = NoPlan
    /\ output_files = {}
    /\ render_log = <<>>

Init ==
    /\ pc = FirstStage
    /\ file \in Files
    /\ \E cfg \in ModelConfigs : llm_model = cfg[1] /\ llm_client = cfg[2]
    /\ debugger \in DebuggerConfigs
    /\ dataframe = NoFrame
    /\ InitLocals
    /\ max_charts = DefaultMaxCharts
    /\ exc = NoExc
    /\ chart_plan = NoPlan

Config == <<file, llm_model, llm_client, max_charts, debugger>>
PlannerVars == <<llm_reply, llm_requests, attempt, parsed, plan_returned>>
RenderVars == <<render_arg, output_files, render_log>>
DebugVars == <<dbg_reply, dbg_requests>>

\* A stage raised: control passes to run's except clause
Raise(e) == pc' = "Failed" /\ exc' = e

Extract ==
    /\ pc = "Extract"
    /\ stage_log' = Append(stage_log, "Extract")
    /\ LET o == extraction_run(file)
       IN IF o.raised THEN Raise(o.exc) /\ UNCHANGED <<dataframe, context>>
          ELSE /\ pc' = StageAfter("Extract")
               /\ dataframe' = o.frame
               /\ context' = update_context_extraction(context, o.frame, run)
               /\ UNCHANGED exc
    /\ UNCHANGED <<Config, run, PlannerVars, analysis_report, chart_plan, visualization_paths,
                   debug_message, dataframe_preview, result, debugger_calls, heur_plans,
                   DebugVars, RenderVars>>

Analyze ==
    /\ pc = "Analyze"
    /\ stage_log' = Append(stage_log, "Analyze")
    /\ \E o \in AnalysisOutcomes :
          IF o.raised THEN Raise(o.exc) /\ UNCHANGED analysis_report
          ELSE pc' = StageAfter("Analyze") /\ analysis_report' = o.report /\ UNCHANGED exc
    /\ UNCHANGED <<context, Config, run, PlannerVars, dataframe, chart_plan, visualization_paths,
                   debug_message, dataframe_preview, result, debugger_calls, heur_plans,
                   DebugVars, RenderVars>>

\* One call of ChartPlanningAgent.run on `dataframe`; the reply is the completion
\* service's answer to the one request the call may make.
PlanningCall(replies, returned, raised) ==
    \E reply \in (IF WillRequest(llm_model, llm_client) THEN replies ELSE {NoReply}) :
        LET o == planning_run(dataframe, llm_model, llm_client, reply)
        IN /\ llm_reply' = reply
           /\ llm_requests' = llm_requests + o.requests
           /\ attempt' = o.attempt
           /\ parsed' = o.parse
           /\ plan_returned' = o.plan
           /\ IF o.raised
              THEN pc' = raised /\ exc' = o.exc /\ UNCHANGED <<chart_plan, context>>
              ELSE /\ pc' = returned
                   /\ chart_plan' = o.plan
                   /\ context' = update_context_planning(context, o.plan, run)
                   /\ UNCHANGED exc

Plan ==
    /\ pc = "Plan"
    /\ stage_log' = Append(stage_log, "Plan")
    /\ PlanningCall(Replies(PipelineEntryPool, MaxPipelineEntries), StageAfter("Plan"),
                    "Failed")
    /\ UNCHANGED <<Config, run, dataframe, analysis_report, visualization_paths, debug_message,
                   dataframe_preview, result, debugger_calls, heur_plans, DebugVars,
                   RenderVars>>

Render ==
    /\ pc = "Render"
    /\ stage_log' = Append(stage_log, "Render")
    /\ render_arg' = chart_plan
    /\ LET o == visualization_run(dataframe, chart_plan)
       IN /\ render_log' = Append(render_log, o)
          /\ output_files' = output_files \cup { o.written[i] : i \in 1..Len(o.written) }
          /\ IF o.raised THEN Raise(o.exc) /\ UNCHANGED <<visualization_paths, context>>
             ELSE /\ pc' = StageAfter("Render")
                  /\ visualization_paths' = o.paths
                  /\ context' = update_context_visualization(context, o.paths,
                                                             chart_plan, run)
                  /\ UNCHANGED exc
    /\ UNCHANGED <<Config, run, PlannerVars, dataframe, analysis_report, chart_plan,
                   debug_message, dataframe_preview, result, debugger_calls, heur_plans,
                   DebugVars>>

Finish_calls_debugger ==
    /\ pc = "Done"
    /\ dataframe_preview' = render_dataframe_preview(dataframe)
    /\ debug_message' = debug_run(exc, debugger, NoDebugReply)
    /\ debugger_calls' = Append(debugger_calls, exc)
    /\ pc' = "Return"
    /\ UNCHANGED <<context, Config, run, PlannerVars, dataframe, analysis_report, chart_plan,
                   visualization_paths, exc, result, stage_log, heur_plans,
                   DebugVars, RenderVars>>

\* The loop ended without an exception
Finish ==
    /\ pc = "Done"
    /\ dataframe_preview' = render_dataframe_preview(dataframe)
    /\ debug_message' = None
    /\ pc' = "Return"
    /\ UNCHANGED <<context, Config, run, PlannerVars, dataframe, analysis_report, chart_plan,
                   visualization_paths, exc, result, stage_log, debugger_calls, heur_plans,
                   DebugVars, RenderVars>>

Handle_keeps_partial_outputs ==
    /\ pc = "Failed"
    /\ dataframe_preview' = render_dataframe_preview(dataframe)
    /\ \E reply \in (IF debugger.client THEN DebugReplies ELSE {NoDebugReply}) :
          /\ dbg_reply' = reply
          /\ dbg_requests' = dbg_requests + debug_requests(exc, debugger)
          /\ debug_message' = debug_run(exc, debugger, reply)
    /\ debugger_calls' = Append(debugger_calls, exc)
    /\ pc' = "Return"
    /\ UNCHANGED <<context, Config, run, PlannerVars, dataframe, exc, result, stage_log, heur_plans,
                   RenderVars, analysis_report, chart_plan,
                   visualization_paths>>

\* The except clause
Handle ==
    /\ pc = "Failed"
    /\ dataframe_preview' = render_dataframe_preview(dataframe)
    /\ analysis_report' = None
    /\ chart_plan' = NoPlan
    /\ visualization_paths' = <<>>
    /\ \E reply \in (IF debugger.client THEN DebugReplies ELSE {NoDebugReply}) :
          /\ dbg_reply' = reply
          /\ dbg_requests' = dbg_requests + debug_requests(exc, debugger)
          /\ debug_message' = debug_run(exc, debugger, reply)
    /\ debugger_calls' = Append(debugger_calls, exc)
    /\ pc' = "Return"
    /\ UNCHANGED <<context, Config, run, PlannerVars, dataframe, exc, result, stage_log, heur_plans,
                   RenderVars>>

Return ==
    /\ pc = "Return"
    /\ result' = OrchestratorResult(dataframe_preview, analysis_report, chart_plan,
                                    visualization_paths, debug_message)
    /\ pc' = "Returned"
    /\ UNCHANGED <<context, Config, run, PlannerVars, dataframe, analysis_report, chart_plan,
                   visualization_paths, debug_message, dataframe_preview, exc, stage_log,
                   debugger_calls, heur_plans, DebugVars, RenderVars>>

Next == Extract \/ Analyze \/ Plan \/ Render \/ Finish \/ Handle \/ Return

Spec == Init /\ [][Next]_vars

-----------------------------------------------------------------------------
(* ChartPlanningAgent.run called on its own, on any dataset *)

InitPlan ==
    /\ pc = "CallPlanner"
    /\ file = File("ok", NoFrame)
    /\ \E cfg \in ModelConfigs : llm_model = cfg[1] /\ llm_client = cfg[2]
    /\ debugger = Debugger(FALSE, <<>>)
    /\ dataframe \in DataFrames(PipelineColumnPool, MaxPipelineCols, MaxSmallRows)
    /\ InitLocals
    /\ max_charts = DefaultMaxCharts
    /\ exc = NoExc
    /\ chart_plan = NoPlan

CallPlanner ==
    /\ pc = "CallPlanner"
    /\ PlanningCall(Replies(EntryPool, MaxEntries), "PlannerReturned", "PlannerRaised")
    /\ UNCHANGED <<Config, run, dataframe, analysis_report, visualization_paths, debug_message,
                   dataframe_preview, result, stage_log, debugger_calls, heur_plans,
                   DebugVars, RenderVars>>

NextPlan == CallPlanner

SpecPlan == InitPlan /\ [][NextPlan]_vars

-----------------------------------------------------------------------------
(* ChartPlanningAgent.run on a planner built with max_charts given, the     *)
(* model and its client configured.  max_charts goes into the instruction   *)
(* text of the request and is read nowhere else, so the reply does not       *)
(* depend on it.                                                            *)

CapFrames ==
    LET age == Column("age", TRUE, FALSE)
        city == Column("city", FALSE, FALSE)
    IN { [cols |-> <<age, city>>, rows |-> 1], [cols |-> <<age>>, rows |-> 1],
         [cols |-> <<city>>, rows |-> 1] }

\* The candidate entries of a reply to a planner with a chart cap
CapEntryPool == { HistogramAge, BarCityPadded, LineGhost }

InitCap ==
    /\ pc = "CallPlanner"
    /\ file = File("ok", NoFrame)
    /\ llm_model = "gpt-4o-mini"
    /\ llm_client = TRUE
    /\ max_charts \in 1..MaxCapCharts
    /\ debugger = Debugger(FALSE, <<>>)
    /\ dataframe \in CapFrames
    /\ InitLocals
    /\ exc = NoExc
    /\ chart_plan = NoPlan

CallCappedPlanner ==
    /\ pc = "CallPlanner"
    /\ PlanningCall(Replies(CapEntryPool, MaxCapEntries), "PlannerReturned",
                    "PlannerRaised")
    /\ UNCHANGED <<Config, run, dataframe, analysis_report, visualization_paths, debug_message,
                   dataframe_preview, result, stage_log, debugger_calls, heur_plans,
                   DebugVars, RenderVars>>

NextCap == CallCappedPlanner

SpecCap == InitCap /\ [][NextCap]_vars

-----------------------------------------------------------------------------
(* ChartPlanningAgent._heuristic_plan called repeatedly on one dataset *)

InitHeuristic(frames) ==
    /\ pc = "CallHeuristic"
    /\ file = File("ok", NoFrame)
    /\ llm_model = None
    /\ llm_client = FALSE
    /\ debugger = Debugger(FALSE, <<>>)
    /\ dataframe \in frames
    /\ InitLocals
    /\ max_charts = DefaultMaxCharts
    /\ exc = NoExc
    /\ chart_plan = NoPlan

CallHeuristic ==
    /\ pc = "CallHeuristic"
    /\ Len(heur_plans) < MaxHeuristicCalls
    /\ heur_plans' = Append(heur_plans, heuristic_plan(dataframe))
    /\ UNCHANGED <<context, pc, Config, run, PlannerVars, dataframe, analysis_report, chart_plan,
                   visualization_paths, debug_message, dataframe_preview, exc, result,
                   stage_log, debugger_calls, DebugVars, RenderVars>>

NextHeuristic == CallHeuristic

InitHeur == InitHeuristic(DataFrames(ColumnPool, MaxCols, MaxSmallRows))
SpecHeur == InitHeur /\ [][NextHeuristic]_vars

InitBins == InitHeuristic(DataFrames(ColumnPool, MaxBinCols, MaxRows))
SpecBins == InitBins /\ [][NextHeuristic]_vars


-----------------------------------------------------------------------------
(* DataVisualizationAgent.run called on its own, repeatedly, on one dataset *)
(* and one plan, into one output directory                                  *)

Age == Column("age", TRUE, FALSE)
Income == Column("income", TRUE, FALSE)
City == Column("city", FALSE, FALSE)
Notes == Column("notes", FALSE, TRUE)

RenderColumns ==
    { <<>>, <<Age, Income, City, Notes>>, <<Age, City>>, <<City, Notes>>, <<Notes>> }

RenderFrames == { [cols |-> c, rows |-> r] : c \in RenderColumns, r \in 0..MaxRenderRows }

\* Chart specs as a caller may build them
DrawHistAge == ChartSpec("histogram", "age", None, None, None, [bins |-> [num |-> 10]])
DrawHistCity == ChartSpec("histogram", "city", None, None, None, NoOptions)
DrawHistNotes == ChartSpec("histogram", "notes", None, None, None, NoOptions)
DrawHistGhost == ChartSpec("histogram", "ghost", None, None, None, NoOptions)
DrawHistAgeBins == ChartSpec("HISTOGRAM", "age", None, None, None, [bins |-> [txt |-> "many"]])
DrawScatterAlpha ==
    ChartSpec("scatter", "age", "income", None, None, [alpha |-> [txt |-> "faint"]])
DrawScatterNoY == ChartSpec("scatter", "age", None, None, None, NoOptions)
DrawLineWidth == ChartSpec("line", "age", None, None, None, [linewidth |-> [txt |-> "thick"]])
DrawBarTopN == ChartSpec("bar", "city", None, None, None, [top_n |-> [txt |-> "all"]])
DrawBoxGhost == ChartSpec("Box", "age", "ghost", None, None, NoOptions)
DrawBoxAge == ChartSpec("Box", "age", None, None, None, NoOptions)
DrawPieAge == ChartSpec("pie", "age", None, None, None, NoOptions)

RenderSpecPool ==
    { DrawHistAge, DrawHistCity, DrawHistNotes, DrawHistGhost, DrawHistAgeBins,
      DrawScatterAlpha, DrawScatterNoY, DrawLineWidth, DrawBarTopN, DrawBoxGhost,
      DrawBoxAge, DrawPieAge }

PlanSources == {"heuristic", "llm"}

RenderPlans ==
    {NoPlan} \cup { ChartPlan(c, "llm", <<>>) :
                       c \in UNION { [1..n -> RenderSpecPool] : n \in 0..MaxRenderSpecs } }

InitViz ==
    /\ pc = "CallRenderer"
    /\ file = File("ok", NoFrame)
    /\ llm_model = None
    /\ llm_client = FALSE
    /\ debugger = Debugger(FALSE, <<>>)
    /\ dataframe \in RenderFrames
    /\ InitLocals
    /\ max_charts = DefaultMaxCharts
    /\ exc = NoExc
    /\ chart_plan \in RenderPlans

CallRenderer ==
    /\ pc = "CallRenderer"
    /\ Len(render_log) < MaxRenderCalls
    /\ render_arg' = chart_plan
    /\ LET o == visualization_run(dataframe, chart_plan)
       IN /\ render_log' = Append(render_log, o)
          /\ output_files' = output_files \cup { o.written[i] : i \in 1..Len(o.written) }
          /\ visualization_paths' = o.paths
          /\ exc' = o.exc
          /\ context' = IF o.raised THEN context
                        ELSE update_context_visualization(context, o.paths, chart_plan, run)
    /\ UNCHANGED <<pc, Config, run, PlannerVars, dataframe, analysis_report, chart_plan,
                   debug_message, dataframe_preview, result, stage_log, debugger_calls,
                   heur_plans, DebugVars>>

NextViz == CallRenderer

SpecViz == InitViz /\ [][NextViz]_vars

-----------------------------------------------------------------------------
(* Claims about AgentOrchestrator.run, under Spec *)

StageRaised == exc # NoExc

\* C1: the result returned by AgentOrchestrator.run has one of two shapes.  If no
\* stage raised, debug_message is None.  If a stage raised, chart_plan is None,
\* visualization_paths is empty, analysis_report is None and debug_message is a
\* non-empty string, whatever planning or rendering produced before the failure;
\* the preview of the dataset extracted is all that survives.
C1_ResultShape ==
    result # NoResult =>
        IF ~StageRaised
        THEN result.debug_message = None
        ELSE /\ result.chart_plan = NoPlan
             /\ result.visualization_paths = <<>>
             /\ result.analysis_report = None
             /\ result.debug_message \notin {None, ""}
             /\ result.dataframe_preview = render_dataframe_preview(dataframe)

\* A run returned after rendering raised with a plan made and a file already written
C1_Witness ==
    /\ result # NoResult
    /\ StageRaised
    /\ plan_returned # NoPlan
    /\ output_files # {}
    /\ result.dataframe_preview # ""

IsPrefix(s, t) == Len(s) <= Len(t) /\ \A i \in 1..Len(s) : s[i] = t[i]

C2_Order ==
    /\ IsPrefix(stage_log, <<"Extract", "Analyze", "Plan", "Render">>)
    /\ pc \in {"Extract", "Analyze", "Plan", "Render"} =>
            /\ ~StageRaised
            /\ stage_log = SubSeq(<<"Extract", "Analyze", "Plan", "Render">>, 1,
                                  Len(stage_log))
            /\ pc = <<"Extract", "Analyze", "Plan", "Render">>[Len(stage_log) + 1]
    /\ StageRaised => pc \in {"Failed", "Return", "Returned"}
    /\ Len(stage_log) = 4 => render_arg = plan_returned /\ render_arg # NoPlan

C2_Step ==
    /\ Len(stage_log') <= Len(stage_log) + 1
    /\ pc \in {"Failed", "Return", "Returned"} =>
            /\ pc' \in {"Failed", "Return", "Returned"}
            /\ stage_log' = stage_log
    /\ StageRaised => exc' = exc

\* C2: within one run the stages are invoked in the order Extract, Analyze, Plan,
\* Render, each at most once and one at a time; a stage is invoked only when every
\* earlier stage returned normally; rendering receives the plan planning returned;
\* once a stage raised, no stage is invoked again.
C2_StagesInOrder == [](C2_Order) /\ [][C2_Step]_vars

\* A run in which all four stages were invoked and which returned
C2_Witness ==
    /\ pc = "Returned"
    /\ stage_log = <<"Extract", "Analyze", "Plan", "Render">>
    /\ render_arg # NoPlan
    /\ ~StageRaised

\* C3: DebuggingAgent.run is called once, with the exception caught, in a run in
\* which a stage raised, and never in a run in which none did; once it returned,
\* the run returns its result.
C3_DebuggerOnce ==
    /\ debugger_calls = IF StageRaised /\ pc \in {"Return", "Returned"}
                        THEN <<exc>> ELSE <<>>
    /\ pc = "Return" => ENABLED Return
    /\ pc = "Returned" <=> result # NoResult
    /\ result # NoResult /\ StageRaised => result.debug_message = debug_message

\* A failed run that returned after the debugger was called
C3_Witness == pc = "Returned" /\ Len(debugger_calls) = 1 /\ result # NoResult

-----------------------------------------------------------------------------
(* Claims about ChartPlanningAgent.run, under SpecPlan *)

PlannerDone == pc \in {"PlannerReturned", "PlannerRaised"}

\* C4: for every dataset supplied and every outcome of the completion-service call
\* ChartPlanningAgent.run returns a plan: it never raises.
C4_PlannerNeverRaises == pc # "PlannerRaised"

\* The model attempt was made and came back with no chart
AttemptAborted == attempt # NoPlan /\ attempt.charts = <<>>

Contains(seq, x) == \E i \in 1..Len(seq) : seq[i] = x

\* C5: when a model is configured and the model attempt yields no usable chart,
\* the plan returned has source "heuristic", the charts of the heuristic plan of the
\* dataset, and among its warnings every warning of the aborted attempt, so at
\* least one.
C5_FallbackKeepsWarnings ==
    pc = "PlannerReturned" /\ Truthy(llm_model) /\ AttemptAborted =>
        /\ chart_plan.source = "heuristic"
        /\ chart_plan.charts = heuristic_plan(dataframe).charts
        /\ \A i \in 1..Len(attempt.warnings) : Contains(chart_plan.warnings, attempt.warnings[i])
        /\ attempt.warnings # <<>>
        /\ chart_plan.warnings # <<>>

\* The service answered a parsable object none of whose charts survived, and the
\* planner returned the heuristic charts of a dataset that has some
C5_Witness ==
    /\ pc = "PlannerReturned"
    /\ AttemptAborted
    /\ llm_reply.kind = "json"
    /\ llm_reply.charts # <<>>
    /\ chart_plan.charts # <<>>

\* The failure mode of a model attempt, from the configuration and the reply
FailureMode(client, reply, parse) ==
    IF ~client THEN "client_unavailable"
    ELSE CASE reply.kind = "transport_error" -> "transport_failure"
           [] reply.kind = "bad_structure" -> "malformed_structure"
           [] reply.kind \in {"content_none", "content_empty"} -> "empty_content"
           [] reply.kind = "bad_json" -> "json_parse_failure"
           [] reply.kind = "json" /\ parse.called /\ ~parse.raised /\ parse.charts = <<>> ->
                "no_surviving_chart"
           [] OTHER -> "none"

\* Every <<failure mode, warnings>> a model attempt produces
ModeWarnings ==
    LET outcomes == { <<c, r, attempt_llm_plan(df, c, r)>> :
                        <<c, r, df>> \in
                            BOOLEAN \X Replies(EntryPool, MaxEntries)
                                \X DataFrames(PipelineColumnPool, 1, MaxSmallRows) }
    IN { <<FailureMode(t[1], t[2], t[3].parse), t[3].plan.warnings>> :
            t \in { u \in outcomes : ~u[3].raised } }

\* C6: each failure mode of the model attempt (client unavailable, transport failure,
\* malformed response structure, missing or empty content, JSON parse failure, no
\* surviving chart) yields an empty plan tagged "heuristic" with exactly one warning,
\* and the warnings of two different failure modes differ.
C6_OneDistinctWarningPerMode ==
    LET mode == FailureMode(llm_client, llm_reply, parsed)
    IN PlannerDone /\ Truthy(llm_model) /\ mode # "none" =>
        /\ attempt # NoPlan
        /\ attempt.charts = <<>>
        /\ attempt.source = "heuristic"
        /\ Len(attempt.warnings) = 1
        /\ \A mw \in ModeWarnings : mw[1] \notin {mode, "none"} => mw[2] # attempt.warnings

\* A JSON parse failure whose error text is also the text of a transport failure
C6_Witness ==
    /\ pc = "PlannerReturned"
    /\ llm_reply.kind = "bad_json"
    /\ llm_reply.error \in TransportErrors
    /\ Len(attempt.warnings) = 1

\* The entries _parse_chart_specs is specified to keep
Keeps(raw, df) ==
    /\ raw.is_object
    /\ chart_type_of(raw) # ""
    /\ raw.x \in columns(df)
    /\ raw.y = None \/ raw.y \in columns(df)

KeptSpecs(chart_payload, df) ==
    LET kept == SelectSeq(chart_payload, LAMBDA raw : Keeps(raw, df))
    IN [i \in 1..Len(kept) |->
            ChartSpec(chart_type_of(kept[i]), kept[i].x, kept[i].y, kept[i].title,
                      kept[i].description,
                      IF kept[i].options_is_dict THEN kept[i].options ELSE NoOptions)]

\* C7: the parsed chart list is the sub-sequence, in order, of the candidate entries
\* whose chart_type is non-empty once trimmed and case-folded, whose x is a column
\* of the dataset and whose y is absent or a column of the dataset; every other
\* entry is dropped without raising and without a warning, so no chart of an "llm"
\* plan names a column the dataset lacks.
C7_ParsedIsKeptSubsequence ==
    /\ parsed.called =>
          /\ ~parsed.raised
          /\ parsed.charts = KeptSpecs(llm_reply.charts, dataframe)
          /\ parsed.charts # <<>> => attempt # NoPlan /\ attempt.warnings = <<>>
    /\ pc = "PlannerReturned" /\ chart_plan.source = "llm" =>
          \A i \in 1..Len(chart_plan.charts) :
              /\ chart_plan.charts[i].x \in columns(dataframe)
              /\ chart_plan.charts[i].y \in columns(dataframe) \cup {None}

\* C8: one call of ChartPlanningAgent.run issues no completion-service request when
\* no model is configured, and then returns the heuristic plan with source
\* "heuristic" and no warning; it issues exactly one request when a model and a
\* client are configured, also when that request fails.
C8_RequestCount ==
    /\ llm_requests <= 1
    /\ PlannerDone /\ ~Truthy(llm_model) =>
          /\ llm_requests = 0
          /\ pc = "PlannerReturned"
          /\ chart_plan.source = "heuristic"
          /\ chart_plan.warnings = <<>>
          /\ chart_plan.charts = heuristic_plan(dataframe).charts
    /\ PlannerDone /\ Truthy(llm_model) /\ llm_client => llm_requests = 1
    /\ ~PlannerDone => llm_requests = 0

\* A call whose single request failed in transport
C8_Witness ==
    /\ pc = "PlannerReturned"
    /\ llm_reply.kind = "transport_error"
    /\ llm_requests = 1
    /\ chart_plan.source = "heuristic"

-----------------------------------------------------------------------------
(* Claims about ChartPlanningAgent._heuristic_plan, under SpecHeur and SpecBins *)

Names(cols) == [i \in 1..Len(cols) |-> cols[i].name]

\* The plan has one histogram per numeric column in column order, then one scatter
\* of the first two numeric columns iff there are two, then one bar over the first
\* non-numeric column with top_n 20 iff `withBar`.
PlanShape(plan, df, withBar) ==
    LET num == Names(select_dtypes(df, TRUE))
        cat == Names(select_dtypes(df, FALSE))
        n == Len(num)
        s == IF n >= 2 THEN 1 ELSE 0
        b == IF withBar THEN 1 ELSE 0
        charts == plan.charts
    IN /\ plan.source = "heuristic"
       /\ Len(charts) = n + s + b
       /\ \A i \in 1..n : /\ charts[i].chart_type = "histogram"
                          /\ charts[i].x = num[i]
                          /\ charts[i].y = None
       /\ s = 1 => /\ charts[n + 1].chart_type = "scatter"
                   /\ charts[n + 1].x = num[1]
                   /\ charts[n + 1].y = num[2]
       /\ b = 1 => /\ charts[n + s + 1].chart_type = "bar"
                   /\ charts[n + s + 1].x = cat[1]
                   /\ charts[n + s + 1].y = None
                   /\ charts[n + s + 1].options = [top_n |-> [num |-> 20]]
       /\ n >= 1 => charts # <<>>

\* C9: the heuristic plan is one histogram per numeric column in column order, then
\* exactly one scatter of the first two numeric columns iff the dataset has two
\* numeric columns, then exactly one bar over the first non-numeric column (top_n 20)
\* iff it has a non-numeric column; repeated calls on a dataset return the same
\* plan, which is non-empty when the dataset has a numeric column.
C9_HeuristicPlanShape ==
    \A k \in 1..Len(heur_plans) :
        /\ PlanShape(heur_plans[k], dataframe, select_dtypes(dataframe, FALSE) # <<>>)
        /\ heur_plans[k] = heur_plans[1]

\* What the code does: the bar is planned only when the dataset also has a row
HeuristicPlanShapeWithRows ==
    \A k \in 1..Len(heur_plans) :
        /\ PlanShape(heur_plans[k], dataframe,
                     select_dtypes(dataframe, FALSE) # <<>> /\ dataframe.rows > 0)
        /\ heur_plans[k] = heur_plans[1]

HistogramsOf(plan) ==
    { plan.charts[i] : i \in { j \in 1..Len(plan.charts) :
                                 plan.charts[j].chart_type = "histogram" } }

\* C10 as claimed: for every row count n, the bins option of every heuristic
\* histogram is the square root of n rounded to the nearest integer, clamped to
\* [10, 40].
C10_BinsRounded ==
    \A k \in 1..Len(heur_plans) : \A h \in HistogramsOf(heur_plans[k]) :
        h.options = [bins |-> [num |-> Min(40, Max(10, RoundSqrt(dataframe.rows)))]]

\* C10 as amended: for every row count n, the bins option of every heuristic
\* histogram is the integer part of the square root of n (the root rounded down),
\* clamped to [10, 40].
C10_BinsFloored ==
    \A k \in 1..Len(heur_plans) : \A h \in HistogramsOf(heur_plans[k]) :
        LET n == dataframe.rows
            b == h.options.bins.num
        IN /\ DOMAIN h.options = {"bins"}
           /\ b \in 10..40
           /\ b = 10 \/ b * b <= n
           /\ b = 40 \/ n < (b + 1) * (b + 1)

\* A histogram planned for a dataset whose row count has a root that rounds up
C10_Witness ==
    /\ heur_plans # <<>>
    /\ HistogramsOf(heur_plans[1]) # {}
    /\ dataframe.rows = 111

-----------------------------------------------------------------------------
(* DebuggingAgent.run called on its own with any error, beside the pipeline *)

WarnNoModel == "LLM model not specified; skipping client creation."
WarnClientFailed == "Failed to initialise LLM client: Connection refused"

\* What __init__ can leave in (_llm_client, _init_warnings)
DebuggerStates ==
    DebuggerConfigs \cup { Debugger(FALSE, <<WarnNoModel>>), Debugger(FALSE, <<WarnClientFailed>>) }

\* What the completion service can answer, an empty or blank content included
EnrichmentReplies ==
    DebugReplies \cup { DebugReply("content", "", <<>>), DebugReply("content", "", <<" ">>) }

\* An exception that is not an AgentError but has an agent_name attribute
TaggedRuntimeError == [type |-> "RuntimeError", message |-> "boom", agent_name |-> "plugin"]

Errors ==
    { NoExc,
      AgentError("File not found: " \o FilePath, "data_extraction"),
      AgentError("No charts could be generated for the provided plan.", "data_visualization"),
      AgentError("Something failed", None),
      AgentError("Something failed", ""),
      PyError("ValueError", "bad value"),
      TaggedRuntimeError }

InitDebug ==
    /\ pc = "CallDebugger"
    /\ file = File("ok", NoFrame)
    /\ llm_model = None
    /\ llm_client = FALSE
    /\ debugger \in DebuggerStates
    /\ dataframe = NoFrame
    /\ InitLocals
    /\ max_charts = DefaultMaxCharts
    /\ chart_plan = NoPlan
    /\ exc \in Errors

CallDebugger ==
    /\ pc = "CallDebugger"
    /\ Len(debugger_calls) < MaxDebugCalls
    /\ \E reply \in (IF debug_requests(exc, debugger) = 1 THEN EnrichmentReplies
                     ELSE {NoDebugReply}) :
          /\ dbg_reply' = reply
          /\ debug_message' = debug_run(exc, debugger, reply)
    /\ dbg_requests' = dbg_requests + debug_requests(exc, debugger)
    /\ debugger_calls' = Append(debugger_calls, exc)
    /\ UNCHANGED <<context, pc, Config, run, PlannerVars, RenderVars, dataframe, analysis_report,
                   chart_plan, visualization_paths, dataframe_preview, exc, result,
                   stage_log, heur_plans>>

InitDiag == Init \/ InitDebug

NextDiag == Next \/ CallDebugger

SpecDiag == InitDiag /\ [][NextDiag]_vars

-----------------------------------------------------------------------------
(* The pipeline with a planner model and client configured, over tables one *)
(* row long, a numeric column without any value among them                  *)

Blank == Column("blank", TRUE, TRUE)

ServiceColumns ==
    { <<Age>>, <<Age, City>>, <<Age, Blank>>, <<Blank>>, <<Blank, Notes>>, <<City, Blank>>,
      <<Notes>> }

ServiceFiles == { File("ok", [cols |-> c, rows |-> r]) : c \in ServiceColumns,
                                                        r \in 1..MaxServiceRows }

InitService ==
    /\ pc = FirstStage
    /\ file \in ServiceFiles
    /\ llm_model = "gpt-4o-mini"
    /\ llm_client = TRUE
    /\ debugger \in DebuggerConfigs
    /\ dataframe = NoFrame
    /\ InitLocals
    /\ max_charts = DefaultMaxCharts
    /\ exc = NoExc
    /\ chart_plan = NoPlan

SpecService == InitService /\ [][Next]_vars

-----------------------------------------------------------------------------
(* Successive AgentOrchestrator.run calls on one orchestrator instance *)

RunFiles ==
    { File("missing", NoFrame),
      File("ok", [cols |-> <<Age, City>>, rows |-> 1]),
      File("ok", [cols |-> <<Notes>>, rows |-> 1]) }

InitRuns ==
    /\ pc = FirstStage
    /\ file \in RunFiles
    /\ \E cfg \in ModelConfigs : llm_model = cfg[1] /\ llm_client = cfg[2] /\ ~cfg[2]
    /\ debugger = Debugger(FALSE, <<>>)
    /\ dataframe = NoFrame
    /\ InitLocals
    /\ max_charts = DefaultMaxCharts
    /\ exc = NoExc
    /\ chart_plan = NoPlan

\* The caller calls run again on the same instance: the locals of run start
\* afresh, the agents and their contexts are those of the instance
RunAgain ==
    /\ pc = "Returned"
    /\ run < MaxRuns
    /\ run' = run + 1
    /\ file' \in RunFiles
    /\ pc' = FirstStage
    /\ dataframe' = NoFrame
    /\ analysis_report' = None
    /\ chart_plan' = NoPlan
    /\ visualization_paths' = <<>>
    /\ dataframe_preview' = None
    /\ debug_message' = None
    /\ exc' = NoExc
    /\ result' = NoResult
    /\ llm_reply' = NoReply
    /\ llm_requests' = 0
    /\ attempt' = NoPlan
    /\ parsed' = NoParse
    /\ plan_returned' = NoPlan
    /\ stage_log' = <<>>
    /\ debugger_calls' = <<>>
    /\ dbg_reply' = NoDebugReply
    /\ dbg_requests' = 0
    /\ render_arg' = NoPlan
    /\ render_log' = <<>>
    /\ UNCHANGED <<llm_model, llm_client, max_charts, debugger, heur_plans, output_files,
                   context>>

NextRuns == Next \/ RunAgain

SpecRuns == InitRuns /\ [][NextRuns]_vars

-----------------------------------------------------------------------------
(* Claims about DataVisualizationAgent.run *)

SupportedKinds == {"histogram", "scatter", "line", "bar", "box"}

Kind(spec) == lower_chart_type(spec.chart_type)

\* The specs a call works through: the plan's charts, or the default plan
SpecsOf(df, plan) ==
    IF plan # NoPlan /\ plan.charts # <<>> THEN plan.charts ELSE default_plan(df)

PlanHasNoCharts(plan) == plan = NoPlan \/ plan.charts = <<>>

NumericColumns(df) == { i \in 1..Len(df.cols) : df.cols[i].numeric }

\* The spec names columns that exist and a chart kind that can be drawn from them
Resolvable(df, spec) ==
    /\ spec.x \in columns(df)
    /\ spec.y = None \/ spec.y \in columns(df)
    /\ Kind(spec) \in SupportedKinds
    /\ Kind(spec) = "scatter" => spec.y # None

Referenced(spec) == IF spec.y # None THEN {spec.x, spec.y} ELSE {spec.x}

\* Some row is left once rows with missing values in the spec's columns are removed
HasData(df, spec) ==
    df.rows > 0 /\ \A n \in Referenced(spec) : ~col(df, n).allna

\* The spec carries, under `key`, a value that is not a number
InvalidOption(spec, key) ==
    /\ spec.options # NoOptions
    /\ key \in DOMAIN spec.options
    /\ "txt" \in DOMAIN spec.options[key]

NumericOptions == {"alpha", "bins", "top_n", "linewidth"}

HasInvalidOption(spec) == \E key \in NumericOptions : InvalidOption(spec, key)

\* The plotting library refuses to draw the spec
Rejected(df, spec) ==
    /\ Resolvable(df, spec)
    /\ HasData(df, spec)
    /\ \/ Kind(spec) = "histogram" /\ ~col(df, spec.x).numeric
       \/ Kind(spec) = "histogram" /\ InvalidOption(spec, "bins")
       \/ Kind(spec) = "line" /\ InvalidOption(spec, "linewidth")
       \/ Kind(spec) = "bar" /\ spec.y # None /\ ~col(df, spec.y).numeric
       \/ Kind(spec) = "box" /\ ~col(df, IF spec.y # None THEN spec.y ELSE spec.x).numeric

Drawable(df, spec) == Resolvable(df, spec) /\ HasData(df, spec) /\ ~Rejected(df, spec)

\* hist_<x>, scatter_<x>_<y>, line_<x>[_<y>], bar_<x>[_<y>], box_<x>[_<y>]
ArtifactName(spec) ==
    CASE Kind(spec) = "histogram" -> "hist_" \o spec.x
      [] Kind(spec) = "scatter" -> "scatter_" \o spec.x \o "_" \o spec.y
      [] OTHER -> Kind(spec) \o "_" \o spec.x
                     \o (IF spec.y # None THEN "_" \o spec.y ELSE "")

ArtifactPath(spec) == OutputDir \o "/" \o ArtifactName(spec) \o ".png"

\* The artifacts of the drawable specs, in plan order
RECURSIVE DrawnPaths(_, _)
DrawnPaths(df, specs) ==
    IF specs = <<>> THEN <<>>
    ELSE (IF Drawable(df, Head(specs)) THEN <<ArtifactPath(Head(specs))>> ELSE <<>>)
             \o DrawnPaths(df, Tail(specs))

Rendered == render_log # <<>> /\ pc = "CallRenderer"

RenderingError(e) == e.type = "AgentError" /\ e.agent_name = "data_visualization"

\* Every spec the call worked through was skipped
AllSkipped(df, plan) ==
    \A i \in 1..Len(SpecsOf(df, plan)) :
        ~Drawable(df, SpecsOf(df, plan)[i]) /\ ~Rejected(df, SpecsOf(df, plan)[i])

\* C12: DataVisualizationAgent.run returns only with at least one artifact; when
\* every spec was skipped it raises an error tagged with the rendering stage; so a
\* successful pipeline result has a non-empty visualization_paths, and a dataset
\* without numeric columns whose bar chart cannot be drawn makes the run fail.
C12_AtLeastOneArtifact ==
    /\ \A k \in 1..Len(render_log) :
          /\ ~render_log[k].raised => render_log[k].paths # <<>>
          /\ AllSkipped(dataframe, render_arg) =>
                 render_log[k].raised /\ RenderingError(render_log[k].exc)
    /\ (pc = "Returned" /\ result.debug_message = None) =>
          result.visualization_paths # <<>>
    /\ (pc = "Returned" /\ render_log # <<>> /\ NumericColumns(dataframe) = {}
           /\ render_arg.source = "heuristic"
           /\ ~Drawable(dataframe, render_arg.charts[Len(render_arg.charts)])) =>
          result.debug_message # None /\ result.visualization_paths = <<>>

\* A pipeline run over a dataset whose only column is all missing values: the
\* heuristic plan is one bar, nothing is drawn and the run fails in rendering
C12_Witness ==
    /\ pc = "Returned"
    /\ dataframe # NoFrame
    /\ NumericColumns(dataframe) = {}
    /\ render_log # <<>>
    /\ render_arg.charts = <<BarSpec("notes")>>
    /\ render_log[1].raised
    /\ render_log[1].exc.message = "No charts could be generated for the provided plan."
    /\ result.debug_message # None

NoneRejected(df, specs) == \A i \in 1..Len(specs) : ~Rejected(df, specs[i])

\* C13: a spec whose x is absent, whose y is set but absent, whose chart type is
\* not one of the five kinds, or which is a scatter without y yields no artifact
\* and raises nothing; the other specs of the plan are still processed and the
\* artifacts are those of the drawn specs, one each, in plan order.
C13_UnresolvableSpecsSkipped ==
    (Rendered /\ ~PlanHasNoCharts(chart_plan)) =>
        \A k \in 1..Len(render_log) :
            LET o == render_log[k]
                specs == chart_plan.charts
            IN /\ \A i \in 1..Len(specs) :
                     ~Resolvable(dataframe, specs[i]) =>
                         render_chart(dataframe, specs[i]) = Skipped
               /\ NoneRejected(dataframe, specs) =>
                     /\ o.written = DrawnPaths(dataframe, specs)
                     /\ ~o.raised => o.paths = DrawnPaths(dataframe, specs)
                     /\ o.raised =>
                            o.exc.message
                                = "No charts could be generated for the provided plan."

\* A plan whose first spec names an unknown chart type and whose second is drawn
C13_Witness ==
    /\ Rendered
    /\ chart_plan # NoPlan
    /\ chart_plan.charts = <<DrawPieAge, DrawBoxAge>>
    /\ ~render_log[1].raised
    /\ render_log[1].paths = <<"visualizations/box_age.png">>

\* But for its options, the spec can be drawn from the dataset
DrawableButForOptions(df, spec) ==
    /\ Resolvable(df, spec)
    /\ HasData(df, spec)
    /\ Kind(spec) = "histogram" => col(df, spec.x).numeric
    /\ Kind(spec) = "bar" /\ spec.y # None => col(df, spec.y).numeric
    /\ Kind(spec) = "box" => col(df, IF spec.y # None THEN spec.y ELSE spec.x).numeric

\* C14: a render of a plan without invalid numeric options never aborts, and a
\* spec with an invalid numeric option (alpha, bins, top_n, linewidth) is drawn
\* with a default instead of making DataVisualizationAgent.run raise.
C14_InvalidOptionsNeverAbort ==
    (Rendered /\ ~PlanHasNoCharts(chart_plan)) =>
        \A k \in 1..Len(render_log) :
            LET o == render_log[k]
                specs == chart_plan.charts
            IN /\ (\A i \in 1..Len(specs) : ~HasInvalidOption(specs[i])) => ~o.raised
               /\ (\A i \in 1..Len(specs) : DrawableButForOptions(dataframe, specs[i])) =>
                     /\ ~o.raised
                     /\ o.paths = [i \in 1..Len(specs) |-> ArtifactPath(specs[i])]

\* The options the renderer does read defensively: an invalid alpha or top_n
\* never makes the call raise
AlphaAndTopNDefended ==
    (Rendered /\ ~PlanHasNoCharts(chart_plan)) =>
        \A k \in 1..Len(render_log) :
            LET specs == chart_plan.charts
            IN (\A i \in 1..Len(specs) :
                    /\ DrawableButForOptions(dataframe, specs[i])
                    /\ ~InvalidOption(specs[i], "bins")
                    /\ ~InvalidOption(specs[i], "linewidth")) =>
                   /\ ~render_log[k].raised
                   /\ render_log[k].paths = [i \in 1..Len(specs) |-> ArtifactPath(specs[i])]

WarningLists == { <<>>, <<WarnEmptyContent>> }

\* C15: plans with the same charts that differ in source or warnings give, on the
\* same dataset and output directory, the same artifact paths and the same
\* raise/return outcome.
C15_SourceIgnored ==
    (Rendered /\ chart_plan # NoPlan) =>
        \A k \in 1..Len(render_log) :
            \A src \in PlanSources, w \in WarningLists :
                LET other == visualization_run(dataframe,
                                               ChartPlan(chart_plan.charts, src, w))
                IN /\ other.raised = render_log[k].raised
                   /\ other.paths = render_log[k].paths
                   /\ other.written = render_log[k].written

\* A plan tagged llm was rendered into two artifacts
C15_Witness ==
    /\ Rendered
    /\ chart_plan # NoPlan
    /\ chart_plan.source = "llm"
    /\ ~render_log[1].raised
    /\ Len(render_log[1].paths) = 2

-----------------------------------------------------------------------------
(* Claims about DebuggingAgent.run *)

Translated == debugger_calls # <<>>

HasTag(e) == e.agent_name # None /\ e.agent_name # ""

\* The message that names the originating stage and carries the error's message
TaggedMessage(e) ==
    "Encountered a recoverable error in agent '" \o e.agent_name \o "': "
        \o e.message \o "."

UntaggedMessage(e) == "Encountered a recoverable error: " \o e.message \o "."

UnavailableNotices ==
    { "\n\nLLM debugging unavailable: " \o why :
        why \in {"Connection error.", WarnNoOpenAI, WarnNoModel, WarnClientFailed} }

Suggestions == { "\n\nLLM suggestion:\n" \o advice : advice \in {"Retry.", ""} }

\* `message` is `base`, possibly followed by a notice or a suggestion
BeginsWith(message, base) ==
    \E rest \in {""} \cup UnavailableNotices \cup Suggestions : message = base \o rest

MissingFileFails ==
    (pc = "Returned" /\ file.status = "missing") =>
        /\ result.chart_plan = NoPlan
        /\ result.visualization_paths = <<>>
        /\ result.debug_message # None
        /\ result.debug_message # ""
        /\ BeginsWith(result.debug_message,
                      TaggedMessage(AgentError("File not found: " \o FilePath,
                                               "data_extraction")))

\* C17 (as stated): DebuggingAgent.run names the originating stage and includes
\* the error's message iff the error carries a stage tag, and gives the generic
\* message for an error without a tag; a pipeline run whose input path does not
\* exist ends without plan and artifacts and with a diagnostic naming extraction.
C17_StageNamedIffTagged ==
    /\ (Translated /\ exc # NoExc) =>
          /\ HasTag(exc) => BeginsWith(debug_message, TaggedMessage(exc))
          /\ ~HasTag(exc) => BeginsWith(debug_message, GenericMessage)
    /\ MissingFileFails

\* C17 (amended): DebuggingAgent.run names the originating stage and includes the
\* error's message iff the error is an AgentError carrying a stage tag; an
\* AgentError without a tag yields its message without a stage, and any other
\* exception yields the generic message; a pipeline run whose input path does not
\* exist ends without plan and artifacts and with a diagnostic naming extraction.
C17_StageNamedIffTaggedAgentError ==
    /\ (Translated /\ exc # NoExc) =>
          /\ (exc.type = "AgentError" /\ HasTag(exc)) =>
                 BeginsWith(debug_message, TaggedMessage(exc))
          /\ (exc.type = "AgentError" /\ ~HasTag(exc)) =>
                 BeginsWith(debug_message, UntaggedMessage(exc))
          /\ exc.type # "AgentError" => BeginsWith(debug_message, GenericMessage)
    /\ MissingFileFails

\* A pipeline run on a missing file has returned its diagnostic
C17_Witness ==
    /\ pc = "Returned"
    /\ file.status = "missing"
    /\ stage_log = <<"Extract">>
    /\ result.debug_message
          = "Encountered a recoverable error in agent 'data_extraction': "
                \o "File not found: data.csv."

BaseMessage(e) ==
    IF e = NoExc THEN "No errors to debug."
    ELSE IF e.type # "AgentError" THEN GenericMessage
    ELSE IF HasTag(e) THEN TaggedMessage(e)
    ELSE UntaggedMessage(e)

\* C18: DebuggingAgent.run returns a non-empty string for every error and every
\* behaviour of the enrichment call; it issues at most one request per call and
\* none without a configured service; the text begins with the base message, to
\* which a failed enrichment only appends an unavailability notice.
C18_DiagnosticsTotal ==
    Translated =>
        /\ debug_message # None
        /\ debug_message # ""
        /\ dbg_requests <= Len(debugger_calls)
        /\ ~debugger.client => dbg_requests = 0 /\ dbg_reply = NoDebugReply
        /\ BeginsWith(debug_message, BaseMessage(exc))
        /\ dbg_reply.kind = "error" =>
               \E notice \in UnavailableNotices :
                   debug_message = BaseMessage(exc) \o notice
        /\ (dbg_reply.kind \in {"content_none", None} /\ debugger.init_warnings = <<>>) =>
               debug_message = BaseMessage(exc)

\* The enrichment call raised while a tagged error was being translated
C18_Witness ==
    /\ Translated
    /\ pc = "CallDebugger"
    /\ HasTag(exc)
    /\ dbg_reply.kind = "error"
    /\ dbg_requests = 1
    /\ debug_message = TaggedMessage(exc)
                            \o "\n\nLLM debugging unavailable: Connection error."

-----------------------------------------------------------------------------
(* Claims about the pipeline when the completion service fails *)

TransportFailed == llm_reply.kind = "transport_error"

NumericWithValues(df) == { i \in NumericColumns(df) : df.rows > 0 /\ ~df.cols[i].allna }

CompletedOnHeuristics ==
    /\ pc # "Failed"
    /\ pc # "Returned" => ENABLED Next
    /\ pc = "Returned" =>
          /\ result.debug_message = None
          /\ result.chart_plan # NoPlan
          /\ result.chart_plan.source = "heuristic"
          /\ result.chart_plan.warnings = <<"LLM planning failed: " \o llm_reply.error>>
          /\ result.visualization_paths # <<>>

\* C19 (as stated): in a full run over a dataset with at least one numeric
\* column, with a planner model configured and the completion call raising a
\* transport or timeout error, the run reaches Done: no debug_message, a
\* heuristic plan with exactly one warning describing the failure, and a
\* non-empty visualization_paths.
C19_TransportFailureStillCompletes ==
    (TransportFailed /\ NumericColumns(dataframe) # {}) => CompletedOnHeuristics

\* C19 (amended): the same, over a dataset with at least one numeric column that
\* holds at least one value.
C19_TransportFailureCompletesWithValues ==
    (TransportFailed /\ NumericWithValues(dataframe) # {}) => CompletedOnHeuristics

\* A run whose planner request timed out has returned a result with artifacts
C19_Witness ==
    /\ pc = "Returned"
    /\ TransportFailed
    /\ llm_reply.error = "Request timed out."
    /\ llm_requests = 1
    /\ NumericWithValues(dataframe) # {}
    /\ result.debug_message = None
    /\ result.chart_plan.warnings = <<"LLM planning failed: Request timed out.">>
    /\ result.visualization_paths # <<>>

-----------------------------------------------------------------------------
(* Claims about the agents' context *)

RunStarts == pc = FirstStage /\ stage_log = <<>>

\* C20: no value written to the context by one run is readable in another, also
\* when both runs go through the same AgentOrchestrator instance: each run starts
\* with an empty context and the context is discarded when the run completes.
\* (That keys are never deleted within a run is ContextKeysKept.)
C20_ContextIsPerRun ==
    /\ RunStarts => context.keys = {}
    /\ \A k \in context.keys : context.stored_in[k] = run

\* update_context only adds or overwrites keys
ContextKeysKept == [][context.keys \subseteq context'.keys]_vars

\* What does hold: the first run on an instance starts with an empty context
FirstRunStartsEmpty == (run = 1 /\ RunStarts) => context.keys = {}

-----------------------------------------------------------------------------
(* Claims about the plans ChartPlanningAgent.run returns, under SpecPlan *)

ChartsOf(plan) == { plan.charts[i] : i \in 1..Len(plan.charts) }

\* C22: every chart spec in every plan ChartPlanningAgent.run returns, from the
\* heuristic or from the model, has a chart_type among histogram, scatter, line,
\* bar and box.
C22_SupportedTypesOnly ==
    pc = "PlannerReturned" =>
        \A spec \in ChartsOf(chart_plan) : spec.chart_type \in SupportedKinds

\* What does hold: heuristic plans use the supported kinds only, and a spec from
\* the model has a stripped, lower-cased, non-empty chart_type
PlannedTypesNormalised ==
    pc = "PlannerReturned" =>
        \A spec \in ChartsOf(chart_plan) :
            /\ chart_plan.source = "heuristic" => spec.chart_type \in SupportedKinds
            /\ spec.chart_type # ""
            /\ spec.chart_type = lower_chart_type(spec.chart_type)

\* C23: every plan with source "llm" that ChartPlanningAgent.run returns holds at
\* least one chart and at most max_charts charts, whatever the length of the
\* chart list in the reply.
C23_ModelPlanWithinCap ==
    (pc = "PlannerReturned" /\ chart_plan.source = "llm") =>
        /\ Len(chart_plan.charts) >= 1
        /\ Len(chart_plan.charts) <= max_charts

\* What does hold: a plan with source "llm" is never empty and is never longer
\* than the chart list of the reply
ModelPlanWithinReply ==
    (pc = "PlannerReturned" /\ chart_plan.source = "llm") =>
        /\ Len(chart_plan.charts) >= 1
        /\ Len(chart_plan.charts) <= Len(llm_reply.charts)

-----------------------------------------------------------------------------
(* Claims about the files DataVisualizationAgent.run leaves, under SpecViz *)

PairwiseDistinct(seq) == \A i, j \in 1..Len(seq) : i # j => seq[i] # seq[j]

\* The image files a call saved: a second save under one name replaces the first
FilesCreated(o) == { o.written[i] : i \in 1..Len(o.written) }

\* C24: the artifact paths one DataVisualizationAgent.run call returns are pairwise
\* distinct and as many as the image files the call created in the output
\* directory, for every plan, also one in which two specs share chart_type, x
\* and y.
C24_PathsDistinctAndCounted ==
    \A k \in 1..Len(render_log) :
        ~render_log[k].raised =>
            /\ PairwiseDistinct(render_log[k].paths)
            /\ Len(render_log[k].paths) = Cardinality(FilesCreated(render_log[k]))

\* What does hold: the returned paths name exactly the files the call saved
PathsAreSavedFiles ==
    \A k \in 1..Len(render_log) :
        ~render_log[k].raised =>
            /\ { render_log[k].paths[i] : i \in 1..Len(render_log[k].paths) }
                   = FilesCreated(render_log[k])
            /\ FilesCreated(render_log[k]) \subseteq output_files

-----------------------------------------------------------------------------
(* Claims about degrading to the heuristic plan, under SpecService *)

\* Planning without a model and rendering its plan succeed on the dataset
UnconfiguredRunSucceeds(df) ==
    LET o == planning_run(df, None, FALSE, NoReply)
    IN ~o.raised /\ ~visualization_run(df, o.plan).raised

RunSucceeded == result.debug_message = None /\ result.visualization_paths # <<>>

\* The run asked the completion service for a plan and has returned
ReturnedAfterRequest == pc = "Returned" /\ llm_requests = 1

\* C21: on every dataset on which the pipeline succeeds with no planner model
\* configured it also succeeds (no debug_message, at least one artifact) with a
\* model configured, whatever the completion service returns, also a valid reply
\* whose charts name existing columns but an unsupported chart type or a type
\* that cannot be drawn on them: unusable output degrades to the heuristic plan.
C21_ConfiguredRunSucceedsToo ==
    (ReturnedAfterRequest /\ UnconfiguredRunSucceeds(dataframe)) => RunSucceeded

\* The case the claim singles out, which fails as well: the reply was parsed into
\* a plan with source "llm" and the run still succeeds
ParsedReplyStillSucceeds ==
    (ReturnedAfterRequest /\ UnconfiguredRunSucceeds(dataframe)
        /\ attempt # NoPlan /\ attempt.source = "llm") => RunSucceeded

\* What does hold: when _attempt_llm_plan itself gave up on the reply, the run
\* goes on with the heuristic plan and succeeds
AbortedAttemptDegrades ==
    (ReturnedAfterRequest /\ UnconfiguredRunSucceeds(dataframe)
        /\ attempt # NoPlan /\ attempt.source = "heuristic") =>
            /\ RunSucceeded
            /\ result.chart_plan.charts = heuristic_plan(dataframe).charts

====
